---- MODULE Spec2Model ----
(***************************************************************************)
(* A model of ccocuzza/network_metrics: the network-partition deviation    *)
(* pipeline (deviation.py), the consensus repartition                      *)
(* (restPartitionAdjuster.py), GVC (gvc.py, gvc_plus_partition.py) and the *)
(* graph metric formulas (participation, diversity, gateway coefficient).  *)
(*                                                                         *)
(* Arrays are functions over 0-based index ranges, nested in numpy's axis  *)
(* order: fcArray[i][j][t][s].  A float is an extended rational <<n, d>>:  *)
(* d > 0 and gcd(n, d) = 1 for a finite value, <<0, 0>> for NaN.  The      *)
(* inputs are small integers, on which the sums, means and comparisons of  *)
(* the source are exact in IEEE double arithmetic as well.                 *)
(***************************************************************************)
EXTENDS Integers, FiniteSets, Sequences, TLC

VARIABLES
    fcArray,    \* the caller's connectivity array, passed as fcArray
    edits,      \* how many entries the caller has set so far
    pc,         \* "input": before the call; "returned" / "raised": after it
    call,       \* the operation called and its other arguments
    out,        \* what the call returned
    out2,       \* restPartitionAdjuster: what the second run returned
    sortRank    \* the order np.argsort leaves equal keys in (fixed per build)

vars == <<fcArray, edits, pc, call, out, out2, sortRank>>

----------------------------------------------------------------------------
(* Bounds of the model                                                     *)

MaxWeight == 1
MaxEdits == 2
DevNodes == 3
DevTasks == 2
DevSubjs == 2

----------------------------------------------------------------------------
(* Floats                                                                  *)

\* A float is a pair <<n, d>>: the rational n/d in lowest terms with d > 0,
\* or <<1, 0>> for inf, <<-1, 0>> for -inf, <<0, 0>> for nan. Signed zeros and
\* rounding are left out.
NaN == <<0, 0>>
IsNaN(x) == x = NaN
Q(n) == <<n, 1>>

Abs(n) == IF n < 0 THEN -n ELSE n

RECURSIVE GCD(_, _)
GCD(a, b) == IF b = 0 THEN a ELSE GCD(b, a % b)

\* n/d in lowest terms with a non-negative denominator; n/0 is inf, -inf or
\* nan by the sign of n
Norm(n, d) ==
    IF d = 0 THEN <<IF n > 0 THEN 1 ELSE IF n < 0 THEN -1 ELSE 0, 0>>
    ELSE LET g == GCD(Abs(n), Abs(d))
             sg == IF d < 0 THEN -1 ELSE 1
         IN <<(sg * n) \div g, (sg * d) \div g>>

QNeg(a) == <<-a[1], a[2]>>
\* inf + inf = inf, inf - inf = nan
QAdd(a, b) == IF IsNaN(a) \/ IsNaN(b) THEN NaN
              ELSE IF a[2] = 0 /\ b[2] = 0 THEN (IF a = b THEN a ELSE NaN)
              ELSE Norm(a[1] * b[2] + b[1] * a[2], a[2] * b[2])
QSub(a, b) == QAdd(a, QNeg(b))
\* 0 * inf = nan
QMul(a, b) == Norm(a[1] * b[1], a[2] * b[2])
\* x / 0 = inf or -inf by the sign of x, 0 / 0 = nan, inf / inf = nan
QDiv(a, b) == IF b[1] < 0 THEN Norm(-(a[1] * b[2]), -(a[2] * b[1]))
              ELSE Norm(a[1] * b[2], a[2] * b[1])
\* a comparison with NaN is False
QLess(a, b) == /\ ~IsNaN(a) /\ ~IsNaN(b)
               /\ IF a[2] = 0 /\ b[2] = 0 THEN a[1] < b[1]
                  ELSE a[1] * b[2] < b[1] * a[2]

\* 0-based index range of an axis of length n
Range0(n) == 0 .. (n - 1)
Size(f) == Cardinality(DOMAIN f)

\* an array held in memory: the same function, its entries computed once
\* (TLC evaluates f @@ g to an explicit table, and f @@ <<>> = f)
Arr(f) == f @@ <<>>

RECURSIVE SumOver(_, _)
SumOver(I, f) ==
    IF I = {} THEN Q(0)
    ELSE LET i == CHOOSE x \in I : TRUE
         IN QAdd(f[i], SumOver(I \ {i}, f))

\* np.nanmean of the entries f[i], i in I: NaN entries are left out; the
\* mean of no entry at all (empty or all-NaN slice) is NaN, with a
\* RuntimeWarning and no exception
nanmean(I, f) ==
    LET vals == f
        J == {i \in I : ~IsNaN(vals[i])}
    IN IF J = {} THEN NaN
       ELSE LET sm == SumOver(J, vals) IN Norm(sm[1], sm[2] * Cardinality(J))

\* np.max of a vector: NaN as soon as one entry is NaN
npmax(vec) ==
    LET v == vec
    IN IF \E k \in DOMAIN v : IsNaN(v[k]) THEN NaN
       ELSE LET m == CHOOSE k \in DOMAIN v : \A l \in DOMAIN v : ~QLess(v[k], v[l])
            IN v[m]

\* a variant of npargmax: NaN entries are passed over, as np.nanargmax does
\* (index 0 for a vector of NaN only)
npargmaxSkipNaN(vec) ==
    LET v == vec
        finite == {k \in DOMAIN v : ~IsNaN(v[k])}
    IN IF finite = {} THEN 0
       ELSE CHOOSE k \in finite :
               /\ \A l \in finite : ~QLess(v[k], v[l])
               /\ \A l \in finite : l < k => QLess(v[l], v[k])

\* a variant of npargmax: the last of the maximal entries instead of the first
npargmaxLast(vec) ==
    LET v == vec
    IN IF \E k \in DOMAIN v : IsNaN(v[k])
       THEN CHOOSE k \in DOMAIN v :
               IsNaN(v[k]) /\ \A l \in DOMAIN v : l > k => ~IsNaN(v[l])
       ELSE CHOOSE k \in DOMAIN v :
               /\ \A l \in DOMAIN v : ~QLess(v[k], v[l])
               /\ \A l \in DOMAIN v : l > k => QLess(v[l], v[k])

\* np.argmax of a vector: the first NaN if there is one, else the first
\* entry that no other entry exceeds
npargmax(vec) ==
    LET v == vec
    IN IF \E k \in DOMAIN v : IsNaN(v[k])
       THEN CHOOSE k \in DOMAIN v :
               IsNaN(v[k]) /\ \A l \in DOMAIN v : l < k => ~IsNaN(v[l])
       ELSE CHOOSE k \in DOMAIN v :
               /\ \A l \in DOMAIN v : ~QLess(v[k], v[l])
               /\ \A l \in DOMAIN v : l < k => QLess(v[l], v[k])

\* the indices a[start:stop] selects on an axis of length n (Python slicing:
\* negative bounds count from the end, bounds are clamped, never an error)
PySlice(start, stop, n) ==
    LET clamp(x) == IF x < 0 THEN (IF x + n < 0 THEN 0 ELSE x + n)
                    ELSE (IF x > n THEN n ELSE x)
    IN {i \in Range0(n) : clamp(start) <= i /\ i < clamp(stop)}

\* a variant of startNodeOf: the start column taken as numbered from 1
startNodeOfOneBased(boundaries, netNum) == boundaries[netNum][1] + 1

\* rows of a boundaries array are <<start, end, size>> (columns 0, 1, 2)
startNodeOf(boundaries, netNum) == boundaries[netNum][1]
\* a variant of endNodeOf: the end column taken as the exclusive stop
endNodeOfExclusive(boundaries, netNum) == boundaries[netNum][2]
endNodeOf(boundaries, netNum) == boundaries[netNum][2] + 1
ClusterOf(boundaries, netNum, n) ==
    PySlice(startNodeOf(boundaries, netNum), endNodeOf(boundaries, netNum), n)

----------------------------------------------------------------------------
(* deviation(): src/cole_lab_net_metrics/deviation.py                      *)

\* a variant of SortOrder: nothing is sorted
SortOrderNone(nodeOrder, useRestPartitionAdjuster, nodeOrderNew) ==
    Arr([a \in DOMAIN nodeOrder |-> a])

\* the index vector the connectivity matrix is sorted by:
\* x[nodeOrder,:][:,nodeOrder] and, with the adjusted partition,
\* [nodeOrderNew,:][:,nodeOrderNew] on top of it
SortOrder(nodeOrder, useRestPartitionAdjuster, nodeOrderNew) ==
    IF useRestPartitionAdjuster
    THEN Arr([a \in DOMAIN nodeOrder |-> nodeOrder[nodeOrderNew[a]]])
    ELSE nodeOrder

\* a variant of ClusteredPerSubject: every subject clustered from the array
\* of subject 0
ClusteredPerSubjectShared(fc, ord, boundariesHere, taskNum, subjNum) ==
    LET nParcels == Size(fc)
        thisTask == Arr([a \in Range0(nParcels) |-> Arr([b \in Range0(nParcels) |->
                        fc[ord[a]][ord[b]][taskNum][0]])])
    IN Arr([nodeNum \in Range0(nParcels) |-> Arr([netNum \in DOMAIN boundariesHere |->
            nanmean(ClusterOf(boundariesHere, netNum, nParcels), thisTask[nodeNum])])])

\* clusteredTaskFC of one task and one subject (per-subject mode)
ClusteredPerSubject(fc, ord, boundariesHere, taskNum, subjNum) ==
    LET nParcels == Size(fc)
        thisTask == Arr([a \in Range0(nParcels) |-> Arr([b \in Range0(nParcels) |->
                        fc[ord[a]][ord[b]][taskNum][subjNum]])])
    IN Arr([nodeNum \in Range0(nParcels) |-> Arr([netNum \in DOMAIN boundariesHere |->
            nanmean(ClusterOf(boundariesHere, netNum, nParcels), thisTask[nodeNum])])])

\* clusteredTaskFC of one task in mean-first mode: fcArray[:,:,ruleSet] keeps
\* the subject axis, so thisCluster is a (nodes of the range) x subjects
\* block and np.nanmean averages all of its entries at once
ClusteredMeanFirst(fc, ord, boundariesHere, ruleSet) ==
    LET nParcels == Size(fc)
        numSubjs == Size(fc[0][0][0])
        thisTask == Arr([a \in Range0(nParcels) |-> Arr([b \in Range0(nParcels) |->
                        fc[ord[a]][ord[b]][ruleSet]])])
    IN Arr([nodeNum \in Range0(nParcels) |-> Arr([netNum \in DOMAIN boundariesHere |->
            LET block == ClusterOf(boundariesHere, netNum, nParcels) \X Range0(numSubjs)
            IN nanmean(block, [p \in block |-> thisTask[nodeNum][p[1]][p[2]]])])])

\* a variant of memberTF: every network up to the preferred one counts
memberTFUpTo(prefIdx, netNum) == IF prefIdx >= netNum THEN 1 ELSE 0

\* memberTF = (thisNodeVec==netNum)*1, for one task condition
memberTF(prefIdx, netNum) == IF prefIdx = netNum THEN 1 ELSE 0

\* a variant of npdiag: column 0 of the matrix
npdiagColumn0(m) == Arr([k \in DOMAIN m |-> m[k][0]])

\* np.diag of a square matrix
npdiag(m) == Arr([k \in DOMAIN m |-> m[k][k]])

\* the pipeline after clustering, for one subject (or for the aggregate):
\* clusteredTaskFC[taskNum][nodeNum][netNum]
AffinityPipeline(clusteredTaskFC, boundariesHere, nParcels, numTasks) ==
    LET Nets == DOMAIN boundariesHere
        Nodes == Range0(nParcels)
        Tasks == Range0(numTasks)
        nodePrefVals == Arr([n \in Nodes |-> Arr([t \in Tasks |->
                            npmax(clusteredTaskFC[t][n])])])
        nodePrefIdxs == Arr([n \in Nodes |-> Arr([t \in Tasks |->
                            npargmax(clusteredTaskFC[t][n])])])
        maxMembershipsTF == Arr([n \in Nodes |-> Arr([t \in Tasks |-> Arr([k \in Nets |->
                                memberTF(nodePrefIdxs[n][t], k)])])])
        netAffinities == Arr([n \in Nodes |-> Arr([k \in Nets |->
                            LET thisNodeSum == SumOver(Tasks,
                                    Arr([t \in Tasks |-> Q(maxMembershipsTF[n][t][k])]))
                            IN Norm(thisNodeSum[1], numTasks)])])
        clusteredAffinities == Arr([k \in Nets |-> Arr([k2 \in Nets |->
                                  nanmean(ClusterOf(boundariesHere, k, nParcels),
                                          Arr([n \in Nodes |-> netAffinities[n][k2]]))])])
        \* the sanity check: the networks whose row is reported
        notFullPercent == {k \in Nets :
                              QLess(QMul(SumOver(Nets, clusteredAffinities[k]), Q(100)),
                                    <<999, 10>>)}
        adherenceRFs == npdiag(clusteredAffinities)
        deviationRFs == Arr([k \in Nets |-> QSub(Q(1), adherenceRFs[k])])
    IN [deviationRFs |-> deviationRFs,
        clusteredAffinities |-> clusteredAffinities,
        netAffinities |-> netAffinities,
        nodePrefVals |-> nodePrefVals,
        nodePrefIdxs |-> nodePrefIdxs,
        maxMembershipsTF |-> maxMembershipsTF,
        \* not returned: the local clusteredTaskFC and the rows the sanity
        \* check printed
        clusteredTaskFC |-> clusteredTaskFC,
        printed |-> notFullPercent]

\* deviation(): the outputs are kept per unit: unit s is subject s in
\* per-subject mode (x[...][s] of the source is units[s].x[...]); in
\* mean-first mode the single unit 0 is the aggregate
deviation(fc, netBoundaries, nodeOrder, useMeanFirst, useRestPartitionAdjuster, netBoundariesNew, nodeOrderNew) ==
    LET boundariesHere == IF useRestPartitionAdjuster THEN netBoundariesNew
                          ELSE netBoundaries
        nParcels == Size(fc)
        numTasks == Size(fc[0][0])
        numSubjs == Size(fc[0][0][0])
        ord == SortOrder(nodeOrder, useRestPartitionAdjuster, nodeOrderNew)
    IN IF useMeanFirst
       THEN Arr([u \in {0} |->
               LET clusteredTaskFC == Arr([t \in Range0(numTasks) |->
                       ClusteredMeanFirst(fc, ord, boundariesHere, t)])
               IN AffinityPipeline(clusteredTaskFC, boundariesHere, nParcels, numTasks)])
       ELSE Arr([s \in Range0(numSubjs) |->
               LET clusteredTaskFC == Arr([t \in Range0(numTasks) |->
                       ClusteredPerSubject(fc, ord, boundariesHere, t, s)])
               IN AffinityPipeline(clusteredTaskFC, boundariesHere, nParcels, numTasks)])

----------------------------------------------------------------------------
(* The caller: arrays and arguments                                        *)

Weights == {Q(v) : v \in 0 .. MaxWeight} \cup {NaN}

Zeros4(n, t, s) ==
    [i \in Range0(n) |-> [j \in Range0(n) |-> [x \in Range0(t) |-> [y \in Range0(s) |-> Q(0)]]]]

Identity(n) == [a \in Range0(n) |-> a]
Reversed(n) == [a \in Range0(n) |-> n - 1 - a]
NodeOrders(n) == {Identity(n), Reversed(n)}

\* the partitions of 0..n-1 into two contiguous non-empty ranges
TwoNets(n) == {[k \in 0 .. 1 |-> IF k = 0 THEN <<0, c - 1, c>> ELSE <<c, n - 1, n - c>>] :
                  c \in 1 .. (n - 1)}

\* boundaries whose second range is empty (end < start) or lies outside the
\* node indices
Malformed(n) == {[k \in 0 .. 1 |-> IF k = 0 THEN <<0, n - 2, n - 1>> ELSE <<n - 1, n - 2, 0>>],
                 [k \in 0 .. 1 |-> IF k = 0 THEN <<0, n - 1, n>> ELSE <<n, n + 1, 2>>]}

IsMalformed(boundaries, n) ==
    \E k \in DOMAIN boundaries :
        \/ boundaries[k][2] < boundaries[k][1]
        \/ boundaries[k][1] < 0
        \/ boundaries[k][2] > n - 1

NoCall == [op |-> "none"]
NoOut == [op |-> "none"]

SetEntry4 ==
    /\ pc = "input"
    /\ edits < MaxEdits
    /\ \E i \in DOMAIN fcArray, j \in DOMAIN fcArray, t \in DOMAIN fcArray[0][0],
          s \in DOMAIN fcArray[0][0][0], w \in Weights \ {Q(0)} :
          /\ fcArray[i][j][t][s] = Q(0)
          /\ fcArray' = [fcArray EXCEPT ![i][j][t][s] = w]
    /\ edits' = edits + 1
    /\ UNCHANGED <<pc, call, out, out2, sortRank>>

CallDeviation ==
    /\ pc = "input"
    /\ \E boundaries \in TwoNets(Size(fcArray)) \cup Malformed(Size(fcArray)),
          nodeOrder \in NodeOrders(Size(fcArray)),
          useMeanFirst \in BOOLEAN,
          useRestPartitionAdjuster \in BOOLEAN,
          nodeOrderNew \in NodeOrders(Size(fcArray)) :
          /\ nodeOrderNew = IF useRestPartitionAdjuster THEN Reversed(Size(fcArray))
                            ELSE Identity(Size(fcArray))
          /\ call' = [op |-> "deviation",
                      netBoundaries |-> boundaries,
                      nodeOrder |-> nodeOrder,
                      useMeanFirst |-> useMeanFirst,
                      useRestPartitionAdjuster |-> useRestPartitionAdjuster,
                      netBoundariesNew |-> boundaries,
                      nodeOrderNew |-> nodeOrderNew]
          /\ out' = [op |-> "deviation",
                     units |-> deviation(fcArray, boundaries, nodeOrder, useMeanFirst,
                                         useRestPartitionAdjuster, boundaries, nodeOrderNew)]
    /\ pc' = "returned"
    /\ UNCHANGED <<fcArray, edits, out2, sortRank>>

InitDev ==
    /\ fcArray = Zeros4(DevNodes, DevTasks, DevSubjs)
    /\ edits = 0
    /\ pc = "input"
    /\ call = NoCall
    /\ out = NoOut
    /\ out2 = NoOut
    /\ sortRank = <<>>

NextDev == SetEntry4 \/ CallDeviation

SpecDev == InitDev /\ [][NextDev]_vars

----------------------------------------------------------------------------
(* Claims about deviation(), checked under SpecDev                         *)

DeviationReturned == pc = "returned" /\ call.op = "deviation"

\* the outputs C1 names, of every unit
NamedOutputs(units) ==
    [u \in DOMAIN units |-> <<units[u].deviationRFs, units[u].clusteredAffinities,
                              units[u].netAffinities, units[u].nodePrefIdxs>>]

\* fc with the self-connectivity of node i set to w in every task and subject
WithDiagonal(fc, i, w) ==
    [fc EXCEPT ![i][i] = [t \in DOMAIN fc[i][i] |-> [s \in DOMAIN fc[i][i][t] |-> w]]]

\* C1: changing only diagonal entries of fcArray leaves deviationRFs,
\* clusteredAffinities, netAffinities and nodePrefIdxs unchanged, in the
\* per-subject and in the mean-first mode.
C1_DiagonalIgnored ==
    DeviationReturned =>
        \A i \in DOMAIN fcArray, w \in Weights :
            NamedOutputs(deviation(WithDiagonal(fcArray, i, w), call.netBoundaries,
                                   call.nodeOrder, call.useMeanFirst,
                                   call.useRestPartitionAdjuster,
                                   call.netBoundariesNew, call.nodeOrderNew))
                = NamedOutputs(out.units)

\* the row maximum as np.max gives it, and the networks that hold it
RowMax(v) ==
    IF \E k \in DOMAIN v : IsNaN(v[k]) THEN NaN
    ELSE v[CHOOSE k \in DOMAIN v : \A l \in DOMAIN v : ~QLess(v[k], v[l])]
AtRowMax(v) == {k \in DOMAIN v : v[k] = RowMax(v)}
Lowest(S) == CHOOSE k \in S : \A l \in S : k <= l

\* C4: for every node, task condition and subject the preference index is
\* the lowest-numbered network among those whose clustered value equals the
\* row maximum.
C4_FirstMaxWins ==
    DeviationReturned =>
        \A u \in DOMAIN out.units :
            \A t \in DOMAIN out.units[u].clusteredTaskFC :
                \A n \in DOMAIN out.units[u].clusteredTaskFC[t] :
                    out.units[u].nodePrefIdxs[n][t]
                        = Lowest(AtRowMax(out.units[u].clusteredTaskFC[t][n]))

\* a node whose finite row maximum is held by two networks, and a node of the
\* same unit and task whose maximum is held by network 1 alone
C4_Witness ==
    /\ DeviationReturned
    /\ \E u \in DOMAIN out.units : \E t \in DOMAIN out.units[u].clusteredTaskFC :
        \E n, m \in DOMAIN out.units[u].clusteredTaskFC[t] :
            LET v == out.units[u].clusteredTaskFC[t][n]
                w == out.units[u].clusteredTaskFC[t][m]
            IN /\ ~IsNaN(RowMax(v))
               /\ Cardinality(AtRowMax(v)) = 2
               /\ AtRowMax(w) = {1}
               /\ out.units[u].nodePrefIdxs[m][t] = 1

\* C9: deviation() does not return scores for boundaries with an empty or
\* malformed range (end < start, or a range outside the node indices).
C9_MalformedIsFatal ==
    (call.op = "deviation" /\ IsMalformed(IF call.useRestPartitionAdjuster
                                          THEN call.netBoundariesNew
                                          ELSE call.netBoundaries, Size(fcArray)))
        => pc # "returned"

\* the boundaries the call clusters by
CalledBoundaries ==
    IF call.useRestPartitionAdjuster THEN call.netBoundariesNew ELSE call.netBoundaries

ValidCall == DeviationReturned /\ ~IsMalformed(CalledBoundaries, Size(fcArray))

RowSum(row) == SumOver(DOMAIN row, row)

\* C13: for a partition whose ranges are all non-empty and inside the node
\* indices, every row of clusteredAffinities sums to 1, for every network
\* and every subject, and for the aggregate matrix of the mean-first mode.
C13_ClusteredRowsSumToOne ==
    ValidCall =>
        \A u \in DOMAIN out.units :
            \A k \in DOMAIN out.units[u].clusteredAffinities :
                RowSum(out.units[u].clusteredAffinities[k]) = Q(1)

\* a valid call with a clustered row spread over both networks, in either
\* mode
C13_Witness ==
    /\ ValidCall
    /\ \E u \in DOMAIN out.units :
        \E k \in DOMAIN out.units[u].clusteredAffinities :
            LET row == out.units[u].clusteredAffinities[k]
            IN /\ \A k2 \in DOMAIN row : QLess(Q(0), row[k2]) /\ QLess(row[k2], Q(1))
               /\ row[0] # row[1]

\* C14: whenever a row of clusteredAffinities does not sum to 100%, a row
\* that is NaN because its range is empty included, the sanity check reports
\* the network (of that subject), and the call still returns its outputs.
C14_BadRowReported ==
    call.op = "deviation" =>
        /\ pc = "returned"
        /\ \A u \in DOMAIN out.units :
             \A k \in DOMAIN out.units[u].clusteredAffinities :
                 RowSum(out.units[u].clusteredAffinities[k]) # Q(1)
                     => k \in out.units[u].printed

\* C15: for every network k and every subject (and for the single vector of
\* the mean-first mode) deviationRFs[k] + clusteredAffinities[k][k] = 1.
C15_DeviationPlusAdherence ==
    DeviationReturned =>
        \A u \in DOMAIN out.units :
            \A k \in DOMAIN out.units[u].deviationRFs :
                QAdd(out.units[u].deviationRFs[k],
                     out.units[u].clusteredAffinities[k][k]) = Q(1)

\* what the code keeps of it: the sum is 1 wherever the range of the network
\* holds a node; the adherence of a network whose range holds no node is
\* NaN, and so is its deviation
DeviationPlusAdherenceOrNaN ==
    DeviationReturned =>
        \A u \in DOMAIN out.units :
            \A k \in DOMAIN out.units[u].deviationRFs :
                LET adherence == out.units[u].clusteredAffinities[k][k]
                    dev == out.units[u].deviationRFs[k]
                    empty == ClusterOf(CalledBoundaries, k, Size(fcArray)) = {}
                IN /\ IsNaN(adherence) <=> empty
                   /\ IF empty THEN IsNaN(dev) ELSE QAdd(dev, adherence) = Q(1)

\* the (node, task) pairs of the range of network k, and those of them in
\* which the node prefers network k
RangePairs(unit, k) ==
    ClusterOf(CalledBoundaries, k, Size(fcArray)) \X DOMAIN unit.nodePrefIdxs[0]
Adhering(unit, k) == {p \in RangePairs(unit, k) : unit.nodePrefIdxs[p[1]][p[2]] = k}

\* C16: the adherence clusteredAffinities[k][k] is the mean, over the nodes
\* of the range of network k, of the fraction of task conditions in which
\* the node's preference index is k, and deviationRFs[k] the mean fraction
\* of task conditions in which it is another network (every node has the
\* same number of task conditions, so the mean of the fractions is the
\* fraction of the pairs; over an empty range both are NaN).
C16_AdherenceIsMeanFraction ==
    DeviationReturned =>
        \A u \in DOMAIN out.units :
            \A k \in DOMAIN out.units[u].deviationRFs :
                LET unit == out.units[u]
                    pairs == Cardinality(RangePairs(unit, k))
                    adhering == Cardinality(Adhering(unit, k))
                IN /\ unit.clusteredAffinities[k][k] = Norm(adhering, pairs)
                   /\ unit.deviationRFs[k] = Norm(pairs - adhering, pairs)

\* a network of two nodes, one of which prefers it in every task condition
\* and the other in one of the two
C16_Witness ==
    /\ ValidCall
    /\ \E u \in DOMAIN out.units :
        \E k \in DOMAIN out.units[u].deviationRFs :
            /\ out.units[u].clusteredAffinities[k][k] = <<3, 4>>
            /\ out.units[u].deviationRFs[k] = <<1, 4>>
            /\ Cardinality(Adhering(out.units[u], k)) = 3

\* the six arrays deviation() returns, of one unit
Returned(unit) ==
    <<unit.deviationRFs, unit.clusteredAffinities, unit.netAffinities,
      unit.nodePrefVals, unit.nodePrefIdxs, unit.maxMembershipsTF>>

\* the array of one pseudo-subject: every entry the mean of the entry over
\* the subjects, missing (NaN) entries left out
SubjectMean(fc) ==
    [i \in DOMAIN fc |-> [j \in DOMAIN fc[i] |-> [t \in DOMAIN fc[i][j] |->
        [s \in {0} |-> nanmean(DOMAIN fc[i][j][t], fc[i][j][t])]]]]

HasNaN(fc) ==
    \E i \in DOMAIN fc : \E j \in DOMAIN fc[i] : \E t \in DOMAIN fc[i][j] :
        \E s \in DOMAIN fc[i][j][t] : IsNaN(fc[i][j][t][s])

MeanFirstAsPseudoSubject ==
    Returned(out.units[0])
        = Returned(deviation(SubjectMean(fcArray), call.netBoundaries, call.nodeOrder,
                             FALSE, call.useRestPartitionAdjuster,
                             call.netBoundariesNew, call.nodeOrderNew)[0])

\* C17: the outputs of the mean-first mode are those of the per-subject
\* pipeline run on the one pseudo-subject whose connectivity is the
\* across-subject mean of fcArray, entries that are NaN included.
C17_MeanFirstEquivalence ==
    (DeviationReturned /\ call.useMeanFirst) => MeanFirstAsPseudoSubject

\* what the code keeps of it: the two agree on arrays without NaN
MeanFirstEquivalenceWithoutNaN ==
    (DeviationReturned /\ call.useMeanFirst /\ ~HasNaN(fcArray)) => MeanFirstAsPseudoSubject

\* C19: for every node, task condition and subject maxMembershipsTF is 1 at
\* the preference index and 0 at every other network; netAffinities is its
\* sum over the task conditions divided by their number, and so every
\* node's affinity row sums to 1.
C19_OneHotMemberships ==
    DeviationReturned =>
        \A u \in DOMAIN out.units :
            LET unit == out.units[u]
                Tasks == DOMAIN unit.nodePrefIdxs[0]
            IN \A n \in DOMAIN unit.maxMembershipsTF :
                /\ \A t \in Tasks : \A k \in DOMAIN unit.maxMembershipsTF[n][t] :
                      /\ unit.maxMembershipsTF[n][t][k] \in {0, 1}
                      /\ unit.maxMembershipsTF[n][t][k] = 1 <=> unit.nodePrefIdxs[n][t] = k
                /\ \A t \in Tasks : unit.nodePrefIdxs[n][t] \in DOMAIN unit.maxMembershipsTF[n][t]
                /\ \A k \in DOMAIN unit.netAffinities[n] :
                      unit.netAffinities[n][k]
                          = Norm(Cardinality({t \in Tasks : unit.maxMembershipsTF[n][t][k] = 1}),
                                 Cardinality(Tasks))
                /\ RowSum(unit.netAffinities[n]) = Q(1)

\* a node that prefers one network in one task condition and the other
\* network in the other
C19_Witness ==
    /\ DeviationReturned
    /\ \E u \in DOMAIN out.units : \E n \in DOMAIN out.units[u].netAffinities :
        /\ out.units[u].nodePrefIdxs[n][0] # out.units[u].nodePrefIdxs[n][1]
        /\ out.units[u].netAffinities[n][0] = <<1, 2>>
        /\ out.units[u].netAffinities[n][1] = <<1, 2>>

\* the entries of node n's row, in the sorted array of task t and subject s,
\* that lie in the range of network k
RangeEdges(n, k, t, s) ==
    LET ord == SortOrder(call.nodeOrder, call.useRestPartitionAdjuster, call.nodeOrderNew)
    IN {fcArray[ord[n]][ord[j]][t][s] :
            j \in ClusterOf(CalledBoundaries, k, Size(fcArray))}
NaNNets(v) == {k \in DOMAIN v : IsNaN(v[k])}

\* C30: in the preference extraction of deviation(), when for a node, task
\* and subject every edge in a network's range is NaN, the clustered value of
\* that network is NaN and no error is raised; the node's preference index
\* is the lowest-numbered network whose clustered value is NaN, with
\* preference value NaN, even if other networks have finite clustered values,
\* and the node is counted as preferring that network in netAffinities.
C30_MissingEdgesPreferred ==
    call.op = "deviation" =>
        /\ pc = "returned"
        /\ \A u \in DOMAIN out.units :
            \A t \in DOMAIN out.units[u].clusteredTaskFC :
                \A n \in DOMAIN out.units[u].clusteredTaskFC[t] :
                    LET v == out.units[u].clusteredTaskFC[t][n]
                    IN /\ ~call.useMeanFirst =>
                            \A k \in DOMAIN v :
                                (\A w \in RangeEdges(n, k, t, u) : IsNaN(w)) => IsNaN(v[k])
                       /\ NaNNets(v) # {} =>
                            /\ out.units[u].nodePrefIdxs[n][t] = Lowest(NaNNets(v))
                            /\ IsNaN(out.units[u].nodePrefVals[n][t])
                            /\ out.units[u].maxMembershipsTF[n][t][Lowest(NaNNets(v))] = 1
                            /\ ~QLess(out.units[u].netAffinities[n][Lowest(NaNNets(v))],
                                      Norm(1, Size(out.units[u].clusteredTaskFC)))

\* a subject's node whose edges into network 1 are all missing in one task
\* while its value for network 0 is a number: it prefers network 1 there
C30_Witness ==
    /\ ValidCall
    /\ ~call.useMeanFirst
    /\ \E u \in DOMAIN out.units : \E t \in DOMAIN out.units[u].clusteredTaskFC :
        \E n \in DOMAIN out.units[u].clusteredTaskFC[t] :
            LET v == out.units[u].clusteredTaskFC[t][n]
            IN /\ RangeEdges(n, 1, t, u) = {NaN}
               /\ NaNNets(v) = {1}
               /\ QLess(Q(0), v[0])
               /\ out.units[u].nodePrefIdxs[n][t] = 1
               /\ ~QLess(out.units[u].netAffinities[n][1],
                         Norm(1, Size(out.units[u].clusteredTaskFC)))

----------------------------------------------------------------------------
(* restPartitionAdjuster(): src/restPartitionAdjuster.py                   *)

MaxSubjs == 3
RestNodes == 4
RestNets == 3

\* Resting connectivity values are held by their Fisher-z coordinate: the
\* entry z of the model's array stands for the correlation r with
\* np.arctanh(r) = z. np.arctanh reads the coordinate and np.tanh writes the
\* correlation of a coordinate back, NaN staying NaN; np.tanh is strictly
\* increasing, so the order and the equalities of tempVec are those of the
\* coordinates.
arctanh(r) == IF IsNaN(r) THEN NaN ELSE Norm(r[1], r[2])
tanh(z) == IF IsNaN(z) THEN NaN ELSE Norm(z[1], z[2])

\* thisSubjRestFC[nodeOrder,:][:,nodeOrder] of a private copy, its diagonal
\* filled with NaN
subjSortedCA(fc, nodeOrder, subjNum) ==
    Arr([a \in DOMAIN nodeOrder |-> Arr([b \in DOMAIN nodeOrder |->
            IF a = b THEN NaN ELSE fc[nodeOrder[a]][nodeOrder[b]][subjNum]])])

tempVecOf(thisNodeVec, netBoundaries) ==
    Arr([netNum \in DOMAIN netBoundaries |->
            tanh(nanmean(ClusterOf(netBoundaries, netNum, Size(thisNodeVec)),
                         Arr([b \in DOMAIN thisNodeVec |-> arctanh(thisNodeVec[b])])))])

\* np.argsort(tempVec)[::-1][0]: the index argsort places last. NaN sorts
\* after every number; among equal keys the order is the sorting routine's
\* (kind='quicksort' is not stable): rank is the order in which it leaves
\* equal keys, rank[k] = k being the order of a stable sort.
prefIdx0(tempVec, rank) ==
    LET v == tempVec
        last == IF \E k \in DOMAIN v : IsNaN(v[k])
                THEN {k \in DOMAIN v : IsNaN(v[k])}
                ELSE {k \in DOMAIN v : \A l \in DOMAIN v : ~QLess(v[k], v[l])}
    IN CHOOSE k \in last : \A l \in last : rank[l] <= rank[k]

\* a variant of statsMode: of several modal values the largest is returned
statsModeLargest(row) ==
    LET count(v) == Cardinality({s \in DOMAIN row : row[s] = v})
        vals == {row[s] : s \in DOMAIN row}
        modal == {v \in vals : \A w \in vals : count(w) <= count(v)}
    IN <<CHOOSE v \in modal : \A w \in modal : w <= v,
         count(CHOOSE v \in modal : \A w \in modal : w <= v)>>

\* scipy.stats.mode of one row: <<the smallest of the most frequent values,
\* its count>> (lines 50-51 index the result as scipy before 1.11 lays it out)
statsMode(row) ==
    LET count(v) == Cardinality({s \in DOMAIN row : row[s] = v})
        vals == {row[s] : s \in DOMAIN row}
        modal == {v \in vals : \A w \in vals : count(w) <= count(v)}
    IN <<CHOOSE v \in modal : \A w \in modal : v <= w,
         count(CHOOSE v \in modal : \A w \in modal : v <= w)>>

\* a variant of restConsensusAt: agreement of exactly one half keeps netNum
restConsensusAtLoose(thisNode, netNum, restModeHere) ==
    IF thisNode = <<1, 2>> \/ QLess(thisNode, <<1, 2>>) THEN netNum ELSE restModeHere

\* the branch of lines 59-62 for a node of the input range of netNum
restConsensusAt(thisNode, netNum, restModeHere) ==
    IF QLess(thisNode, <<1, 2>>) THEN netNum ELSE restModeHere

\* np.sort of a vector of network numbers
npsort(vec) ==
    LET below(v) == Cardinality({n \in DOMAIN vec : vec[n] < v})
        upto(v) == Cardinality({n \in DOMAIN vec : vec[n] <= v})
    IN Arr([p \in DOMAIN vec |->
            CHOOSE v \in {vec[n] : n \in DOMAIN vec} : below(v) <= p /\ p < upto(v)])

\* a variant of npargsort: the permutations that put the vector in
\* descending order, np.argsort(vec)[::-1]
npargsortDescending(vec) ==
    LET sorted == npsort(vec)
        last == Size(vec) - 1
    IN {p \in Permutations(DOMAIN vec) : \A a \in DOMAIN vec : vec[p[a]] = sorted[last - a]}

\* what np.argsort may return for a vector of network numbers: a permutation
\* that sorts it, equal keys in any order
npargsort(vec) ==
    LET sorted == npsort(vec)
    IN {p \in Permutations(DOMAIN vec) : \A a \in DOMAIN vec : vec[p[a]] = sorted[a]}

ValueError == <<"ValueError">>

\* a variant of valsOf: an empty finder gives the empty range [0, -1]
valsOfUnchecked(finder) ==
    IF finder = {} THEN <<0, -1>>
    ELSE <<CHOOSE a \in finder : \A b \in finder : a <= b,
           CHOOSE a \in finder : \A b \in finder : b <= a>>

\* vals of line 70: np.min of an empty finder raises ValueError
valsOf(finder) ==
    IF finder = {} THEN ValueError
    ELSE <<CHOOSE a \in finder : \A b \in finder : a <= b,
           CHOOSE a \in finder : \A b \in finder : b <= a>>

\* a variant of sampSizeOf: the length of np.arange(min, max)
sampSizeOpen(vals) == IF vals[2] - vals[1] < 0 THEN 0 ELSE vals[2] - vals[1]

\* sampSize of lines 71-72: the length of np.arange(min, max + 1)
sampSizeOf(vals) == IF vals[2] + 1 - vals[1] < 0 THEN 0 ELSE vals[2] + 1 - vals[1]

\* restPartitionAdjuster(): the values of its variables when it returns or
\* raises; nodeOrderNew, one of npargsort(restConsensus), is chosen by the
\* calling step. rank: see prefIdx0.
restPartitionAdjuster(fc, netBoundaries, nodeOrder, rank) ==
    LET nParcels == Size(fc)
        numSubjs == Size(fc[0][0])
        Nets == DOMAIN netBoundaries
        Nodes == Range0(nParcels)
        sorted == Arr([subjNum \in Range0(numSubjs) |->
                        subjSortedCA(fc, nodeOrder, subjNum)])
        restPreferences == Arr([nodeNum \in Nodes |-> Arr([subjNum \in Range0(numSubjs) |->
                prefIdx0(tempVecOf(sorted[subjNum][nodeNum], netBoundaries), rank)])])
        restMode == Arr([nodeNum \in Nodes |-> statsMode(restPreferences[nodeNum])])
        percentAgree == Arr([nodeNum \in Nodes |-> Norm(restMode[nodeNum][2], numSubjs)])
        \* for nodeNum in range(startNode,endNode), network after network:
        \* the last range that holds a node decides, a node of no range keeps
        \* the 0 of np.zeros; an index past the last node is an IndexError
        rangeOf(netNum) == startNodeOf(netBoundaries, netNum)
                             .. (endNodeOf(netBoundaries, netNum) - 1)
        indexError == \E netNum \in Nets : \E nodeNum \in rangeOf(netNum) :
                          nodeNum >= nParcels
        restConsensus == Arr([nodeNum \in Nodes |->
                LET holders == {netNum \in Nets : nodeNum \in rangeOf(netNum)}
                IN IF holders = {} THEN 0
                   ELSE LET netNum == CHOOSE k \in holders : \A l \in holders : l <= k
                        IN restConsensusAt(percentAgree[nodeNum], netNum,
                                           restMode[nodeNum][1])])
        nodeIndicesNew == npsort(restConsensus)
        vals == Arr([netNum \in Nets |->
                        valsOf({p \in Nodes : nodeIndicesNew[p] = netNum})])
        raises == indexError \/ \E netNum \in Nets : vals[netNum] = ValueError
    IN [status |-> IF raises THEN "raised" ELSE "returned",
        restPreferences |-> restPreferences,
        percentAgree |-> percentAgree,
        restMode |-> Arr([nodeNum \in Nodes |-> restMode[nodeNum][1]]),
        restConsensus |-> restConsensus,
        nodeIndicesNew |-> nodeIndicesNew,
        netBoundariesNew |-> IF raises THEN <<>>
                             ELSE Arr([netNum \in Nets |->
                                     <<vals[netNum][1], vals[netNum][2],
                                       sampSizeOf(vals[netNum])>>])]

----------------------------------------------------------------------------
(* The caller of restPartitionAdjuster()                                   *)

Zeros3(n, s) == [i \in Range0(n) |-> [j \in Range0(n) |-> [y \in Range0(s) |-> Q(0)]]]

\* the partitions of 0..n-1 into numNets contiguous non-empty ranges, as
\* rows <<start, end, size>>: one for every set of numNets - 1 cuts
ContiguousNets(n, numNets) ==
    LET startOf(cuts, k) ==
            IF k = 0 THEN 0
            ELSE CHOOSE x \in cuts : Cardinality({y \in cuts : y < x}) = k - 1
        endOf(cuts, k) == IF k = numNets - 1 THEN n - 1 ELSE startOf(cuts, k + 1) - 1
    IN {[k \in Range0(numNets) |->
            <<startOf(cuts, k), endOf(cuts, k), endOf(cuts, k) - startOf(cuts, k) + 1>>] :
        cuts \in {c \in SUBSET (1 .. (n - 1)) : Cardinality(c) = numNets - 1}}

\* the partitions and node orders restPartitionAdjuster() is called with: the
\* partition with a two-node middle network comes with the reversed order
RestCallers(n) ==
    {<<b, o>> \in ContiguousNets(n, RestNets) \X NodeOrders(n) : (o = Reversed(n)) <=> (b[1][3] > 1)}

\* one edge of the resting array of one subject, set in both directions
SetEdge3 ==
    /\ pc = "input"
    /\ edits < MaxEdits
    /\ \E i \in DOMAIN fcArray, j \in DOMAIN fcArray, s \in DOMAIN fcArray[0][0],
          w \in Weights \ {Q(0)} :
          /\ i < j
          /\ fcArray[i][j][s] = Q(0)
          /\ fcArray' = [fcArray EXCEPT ![i][j][s] = w, ![j][i][s] = w]
    /\ edits' = edits + 1
    /\ UNCHANGED <<pc, call, out, out2, sortRank>>

\* one call on the caller's array, and the call on its own output: the
\* function works on copies (line 29), the caller's array stays as it is
\* a call that raises returns nothing: its record keeps the variables the
\* function had set, and no nodeOrderNew
nodeOrderNewOf(r) == IF r.status = "returned" THEN npargsort(r.restConsensus) ELSE {<<>>}

RestResult(r, nodeOrderNew) ==
    [op |-> "restPartitionAdjuster", nodeOrderNew |-> nodeOrderNew] @@ r

CallRestPartitionAdjuster ==
    /\ pc = "input"
    /\ \E caller \in RestCallers(Size(fcArray)) :
          LET netBoundaries == caller[1]
              nodeOrder == caller[2]
              r == restPartitionAdjuster(fcArray, netBoundaries, nodeOrder, sortRank)
          IN /\ call' = [op |-> "restPartitionAdjuster",
                         netBoundaries |-> netBoundaries,
                         nodeOrder |-> nodeOrder]
             /\ \E nodeOrderNew \in nodeOrderNewOf(r) :
                   out' = RestResult(r, nodeOrderNew)
             /\ pc' = r.status
    /\ UNCHANGED <<fcArray, edits, out2, sortRank>>

CallAgain ==
    /\ pc = "returned"
    /\ call.op = "restPartitionAdjuster"
    /\ out2 = NoOut
    /\ LET nodeOrder2 == Arr([a \in DOMAIN call.nodeOrder |->
                                call.nodeOrder[out.nodeOrderNew[a]]])
           r == restPartitionAdjuster(fcArray, out.netBoundariesNew, nodeOrder2, sortRank)
       IN \E nodeOrderNew \in nodeOrderNewOf(r) :
             out2' = RestResult(r, nodeOrderNew)
    /\ UNCHANGED <<fcArray, edits, pc, call, out, sortRank>>

InitRest ==
    /\ \E numSubjs \in 2 .. MaxSubjs : fcArray = Zeros3(RestNodes, numSubjs)
    /\ edits = 0
    /\ pc = "input"
    /\ call = NoCall
    /\ out = NoOut
    /\ out2 = NoOut
    /\ sortRank \in Permutations(Range0(RestNets))

NextRest == SetEdge3 \/ CallRestPartitionAdjuster \/ CallAgain

SpecRest == InitRest /\ [][NextRest]_vars

----------------------------------------------------------------------------
(* Claims about restPartitionAdjuster(), checked under SpecRest            *)

RestCalled == call.op = "restPartitionAdjuster" /\ pc \in {"returned", "raised"}
RestReturned == call.op = "restPartitionAdjuster" /\ pc = "returned"

\* the clustered vector of a node and a subject in the call made
CalledTempVec(nodeNum, subjNum) ==
    tempVecOf(subjSortedCA(fcArray, call.nodeOrder, subjNum)[nodeNum], call.netBoundaries)

\* C5: restPreferences[node, subject] is the lowest-numbered network among
\* those whose clustered value equals the maximum of the node's clustered
\* vector.
C5_LowestMaxPreferred ==
    RestCalled =>
        \A nodeNum \in DOMAIN out.restPreferences :
            \A subjNum \in DOMAIN out.restPreferences[nodeNum] :
                out.restPreferences[nodeNum][subjNum]
                    = Lowest(AtRowMax(CalledTempVec(nodeNum, subjNum)))

\* the subjects of a node that prefer network v, and the networks most
\* subjects prefer
Agreeing(r, nodeNum, v) ==
    {subjNum \in DOMAIN r.restPreferences[nodeNum] : r.restPreferences[nodeNum][subjNum] = v}
ModalNets(r, nodeNum, Nets) ==
    {v \in Nets : \A w \in Nets :
        Cardinality(Agreeing(r, nodeNum, w)) <= Cardinality(Agreeing(r, nodeNum, v))}
InputNet(nodeNum) ==
    CHOOSE k \in DOMAIN call.netBoundaries :
        call.netBoundaries[k][1] <= nodeNum /\ nodeNum <= call.netBoundaries[k][2]

\* C6: a node of the input range of network k keeps k when fewer than half
\* of the subjects agree on its modal network, and is given the modal network
\* when half of them or more do.
C6_ConsensusRule ==
    RestCalled =>
        \A nodeNum \in DOMAIN out.restConsensus :
            LET Nets == DOMAIN call.netBoundaries
                agree == Cardinality(Agreeing(out, nodeNum, out.restMode[nodeNum]))
                numSubjs == Size(out.restPreferences[nodeNum])
            IN /\ out.restMode[nodeNum] \in ModalNets(out, nodeNum, Nets)
               /\ out.percentAgree[nodeNum] = Norm(agree, numSubjs)
               /\ 2 * agree < numSubjs => out.restConsensus[nodeNum] = InputNet(nodeNum)
               /\ 2 * agree >= numSubjs => out.restConsensus[nodeNum] = out.restMode[nodeNum]

\* a node without quorum whose modal network is not its own, next to a node
\* with quorum that is moved to its modal network
C6_Witness ==
    /\ RestReturned
    /\ \E n, m \in DOMAIN out.restConsensus :
        /\ QLess(out.percentAgree[n], <<1, 2>>)
        /\ out.restMode[n] # InputNet(n)
        /\ out.restConsensus[n] = InputNet(n)
        /\ ~QLess(out.percentAgree[m], <<1, 2>>)
        /\ out.restConsensus[m] # InputNet(m)

\* C28: percentAgree[n] is the number of subjects whose preferred network
\* for node n is the modal one, divided by the number of subjects, so it lies
\* between 1/numSubjs and 1; of several networks tied for most frequent the
\* vote is the smallest index, so with an exact 50/50 split between two
\* networks the node is given the lower-numbered one even if its original
\* network is the other.
C28_TiedVote ==
    RestCalled =>
        \A nodeNum \in DOMAIN out.restConsensus :
            LET Nets == DOMAIN call.netBoundaries
                numSubjs == Size(out.restPreferences[nodeNum])
                modal == ModalNets(out, nodeNum, Nets)
                agree == Cardinality(Agreeing(out, nodeNum, Lowest(modal)))
            IN /\ out.restMode[nodeNum] = Lowest(modal)
               /\ out.percentAgree[nodeNum] = Norm(agree, numSubjs)
               /\ 1 <= agree /\ agree <= numSubjs
               /\ ~QLess(out.percentAgree[nodeNum], Norm(1, numSubjs))
               /\ ~QLess(Q(1), out.percentAgree[nodeNum])
               /\ (Cardinality(modal) = 2 /\ 2 * agree = numSubjs)
                     => out.restConsensus[nodeNum] = Lowest(modal)

\* a node of the higher of two networks that split the subjects in halves is
\* moved to the lower one
C28_Witness ==
    /\ RestReturned
    /\ \E nodeNum \in DOMAIN out.restConsensus :
        LET modal == ModalNets(out, nodeNum, DOMAIN call.netBoundaries)
        IN /\ Cardinality(modal) = 2
           /\ out.percentAgree[nodeNum] = <<1, 2>>
           /\ InputNet(nodeNum) \in modal
           /\ InputNet(nodeNum) # Lowest(modal)
           /\ out.restConsensus[nodeNum] = Lowest(modal)

EveryNodeQuorum(r) ==
    \A nodeNum \in DOMAIN r.percentAgree : ~QLess(r.percentAgree[nodeNum], <<1, 2>>)

\* C7: when every node reached quorum, the call on the function's own output
\* returns the same assignment: nodeIndicesNew and netBoundariesNew unchanged,
\* nodeOrderNew the identity.
C7_FixedPoint ==
    (RestReturned /\ out2 # NoOut /\ EveryNodeQuorum(out)) =>
        /\ out2.status = "returned"
        /\ out2.nodeIndicesNew = out.nodeIndicesNew
        /\ out2.netBoundariesNew = out.netBoundariesNew
        /\ out2.nodeOrderNew = Identity(Size(fcArray))

NodesOf(r, netNum) == {nodeNum \in DOMAIN r.restConsensus : r.restConsensus[nodeNum] = netNum}

\* C8: the call raises whenever some network is left without a node in
\* restConsensus, and a netBoundariesNew that is returned has no empty range.
C8_EmptyNetworkRaises ==
    RestCalled =>
        /\ (\E netNum \in DOMAIN call.netBoundaries : NodesOf(out, netNum) = {})
              => pc = "raised"
        /\ pc = "returned" =>
              \A netNum \in DOMAIN out.netBoundariesNew :
                  /\ out.netBoundariesNew[netNum][1] <= out.netBoundariesNew[netNum][2]
                  /\ out.netBoundariesNew[netNum][3] >= 1

\* a call that raised because quorum moved every node out of a network
C8_Witness ==
    /\ call.op = "restPartitionAdjuster" /\ pc = "raised"
    /\ \E netNum \in DOMAIN call.netBoundaries :
        /\ NodesOf(out, netNum) = {}
        /\ \E nodeNum \in DOMAIN out.restConsensus :
              InputNet(nodeNum) = netNum /\ out.restConsensus[nodeNum] # netNum

\* C10: a returned netBoundariesNew is a partition of 0..nParcels-1 into
\* consecutive ranges in network order, each of size end - start + 1, the
\* number of nodes whose restConsensus is that network.
C10_ValidPartition ==
    RestReturned =>
        LET b == out.netBoundariesNew
            last == Size(b) - 1
        IN /\ b[0][1] = 0
           /\ b[last][2] = Size(fcArray) - 1
           /\ \A k \in DOMAIN b :
                /\ b[k][1] <= b[k][2]
                /\ k < last => b[k + 1][1] = b[k][2] + 1
                /\ b[k][3] = b[k][2] - b[k][1] + 1
                /\ b[k][3] = Cardinality(NodesOf(out, k))

\* a returned partition that is not the input partition
C10_Witness ==
    /\ RestReturned
    /\ out.netBoundariesNew # call.netBoundaries
    /\ \E nodeNum \in DOMAIN out.restConsensus : out.restConsensus[nodeNum] # InputNet(nodeNum)

\* C11: a returned nodeOrderNew is a permutation of 0..nParcels-1; the
\* consensus networks read in its order are non-decreasing and equal
\* nodeIndicesNew position by position, and every position lies inside the
\* netBoundariesNew range of the network of the node placed there.
C11_SortingPermutation ==
    RestReturned =>
        LET o == out.nodeOrderNew
            Nodes == Range0(Size(fcArray))
            b == out.netBoundariesNew
        IN /\ DOMAIN o = Nodes
           /\ {o[p] : p \in Nodes} = Nodes
           /\ \A p \in Nodes :
                /\ out.restConsensus[o[p]] = out.nodeIndicesNew[p]
                /\ (p + 1) \in Nodes => out.nodeIndicesNew[p] <= out.nodeIndicesNew[p + 1]
                /\ b[out.restConsensus[o[p]]][1] <= p
                /\ p <= b[out.restConsensus[o[p]]][2]

\* a returned call whose consensus vector is out of order, so that
\* nodeOrderNew has to move a node
C11_Witness ==
    /\ RestReturned
    /\ \E a, c \in DOMAIN out.restConsensus :
          a < c /\ out.restConsensus[a] > out.restConsensus[c]
    /\ out.nodeOrderNew # Identity(Size(fcArray))

\* the position nodeOrderNew gives a node
PositionOf(o, nodeNum) == CHOOSE p \in DOMAIN o : o[p] = nodeNum

\* C12: the re-sort is stable: of two nodes with the same consensus network,
\* the one that comes first in the input order comes first in nodeOrderNew.
C12_StableSort ==
    RestReturned =>
        \A a, c \in DOMAIN out.restConsensus :
            (a < c /\ out.restConsensus[a] = out.restConsensus[c])
                => PositionOf(out.nodeOrderNew, a) < PositionOf(out.nodeOrderNew, c)

----------------------------------------------------------------------------
(* The coefficients of a nodes x nodes matrix and an affiliation vector    *)
(* numbered from 1: participation_coefficient_sign.py,                     *)
(* drafts/diversity_coef_sign.py,                                          *)
(* bcn_toolbox_scripts_in_python/gateway_coefficient_sign.py               *)

MetricNodes == 3
MetricNets == 2

\* np.nansum of the entries f[i], i in I
nansum(I, f) ==
    LET vals == f IN SumOver({i \in I : ~IsNaN(vals[i])}, vals)

QSquare(a) == QMul(a, a)

\* np.nanmax of the affiliation vector
nModulesOf(thisNetAffilVec) ==
    CHOOSE m \in {thisNetAffilVec[j] : j \in DOMAIN thisNetAffilVec} :
        \A j \in DOMAIN thisNetAffilVec : thisNetAffilVec[j] <= m

\* a variant of netAffilMaskOf: the networks numbered from 0 in the mask
netAffilMaskOfZeroBased(fc, thisNetAffilVec) ==
    Arr([i \in DOMAIN fc |-> Arr([j \in DOMAIN fc |->
            IF fc[i][j] # Q(0) THEN thisNetAffilVec[j] - 1 ELSE 0])])

\* np.matmul(fcArray != 0, np.diag(thisNetAffilVec)): the network of column
\* j where the entry is not 0 (NaN != 0 is True), 0 elsewhere
netAffilMaskOf(fc, thisNetAffilVec) ==
    Arr([i \in DOMAIN fc |-> Arr([j \in DOMAIN fc |->
            IF fc[i][j] # Q(0) THEN thisNetAffilVec[j] ELSE 0])])

\* a variant of maskedRowSum: the row summed without the mask
maskedRowSumUnmasked(fc, netAffilMask, i, netNum) == nansum(DOMAIN fc, fc[i])

\* np.nansum(fcArray * (netAffilMask == netNum), axis=1) of row i: a NaN entry
\* stays NaN under the product and is left out of the sum
maskedRowSum(fc, netAffilMask, i, netNum) ==
    nansum(DOMAIN fc, Arr([j \in DOMAIN fc |->
            QMul(fc[i][j], IF netAffilMask[i][j] = netNum THEN Q(1) ELSE Q(0))]))

participation_coefficient_sign(fc, thisNetAffilVec, numNets) ==
    LET Nodes == DOMAIN fc
        degreeOfROIs == Arr([i \in Nodes |-> nansum(Nodes, fc[i])])
        netAffilMask == netAffilMaskOf(fc, thisNetAffilVec)
        arrHere == Arr([i \in Nodes |->
                        SumOver(1 .. numNets, Arr([netNum \in 1 .. numNets |->
                            QSquare(maskedRowSum(fc, netAffilMask, i, netNum))]))])
        squareDegrees == Arr([i \in Nodes |->
                            IF QSquare(degreeOfROIs[i]) = Q(0) THEN NaN
                            ELSE QSquare(degreeOfROIs[i])])
        partCoef == Arr([i \in Nodes |-> QSub(Q(1), QDiv(arrHere[i], squareDegrees[i]))])
    IN Arr([i \in Nodes |->
            IF IsNaN(partCoef[i]) \/ degreeOfROIs[i] = Q(0) THEN Q(0) ELSE partCoef[i]])

\* Logarithms are held exactly: the vector c stands for the sum over its
\* primes p of c[p] * ln(p), every c[p] # 0; the logarithms of the primes are
\* linearly independent over the rationals, so two sums are equal exactly
\* when their vectors are. The vector 0 :> v stands for the value v that is
\* nan, inf or -inf.
PrimesUpTo(n) == {p \in 2 .. n : \A d \in 2 .. (p - 1) : p % d # 0}

RECURSIVE PrimeExp(_, _)
PrimeExp(n, p) == IF n % p = 0 THEN 1 + PrimeExp(n \div p, p) ELSE 0

\* the coefficient of ln(p) in x * np.log(x), x > 0 finite
xlogx(x, p) == QMul(x, Q(PrimeExp(x[1], p) - PrimeExp(x[2], p)))

\* the score of one node, (sum of x log x over the modules / log(nModules))
\* * -1, is held as the vector of the sum times -1 and the nModules whose
\* logarithm divides it; the logarithm of a negative number is nan, and
\* inf * log(inf) is inf
diversity_coef_sign(fc, thisNetAffilVec, numNets) ==
    LET Nodes == DOMAIN fc
        nModules == nModulesOf(thisNetAffilVec)
        degreeOfROIs == Arr([i \in Nodes |-> nansum(Nodes, fc[i])])
        arrHere == Arr([i \in Nodes |-> Arr([netNum \in 1 .. nModules |->
                        nansum({j \in Nodes : thisNetAffilVec[j] = netNum}, fc[i])])])
        pArrHere == Arr([i \in Nodes |-> Arr([netNum \in 1 .. nModules |->
                        LET x == QDiv(arrHere[i][netNum], degreeOfROIs[i])
                        IN IF IsNaN(x) \/ x = Q(0) THEN Q(1) ELSE x])])
        shannon(i) ==
            LET x == pArrHere[i]
                parts == {Abs(x[netNum][1]) : netNum \in 1 .. nModules}
                            \cup {x[netNum][2] : netNum \in 1 .. nModules}
                P == PrimesUpTo(CHOOSE b \in parts : \A c \in parts : c <= b)
                coef == Arr([p \in P |-> QNeg(SumOver(1 .. nModules,
                            Arr([netNum \in 1 .. nModules |-> xlogx(x[netNum], p)])))])
            IN IF \E netNum \in 1 .. nModules : x[netNum][1] < 0 THEN 0 :> NaN
               ELSE IF \E netNum \in 1 .. nModules : x[netNum][2] = 0 THEN 0 :> <<-1, 0>>
               ELSE Arr([p \in {q \in P : coef[q] # Q(0)} |-> coef[p]])
    IN Arr([i \in Nodes |-> [sum |-> shannon(i), logOf |-> nModules]])

\* np.fill_diagonal(fcArray, 0): done on the array that was passed
ZeroDiagonal(fc) ==
    Arr([i \in DOMAIN fc |-> Arr([j \in DOMAIN fc |-> IF i = j THEN Q(0) ELSE fc[i][j]])])

\* gateway_coefficient_sign() with centType = 'node_strength', for
\* numNets = nModules (ksArr has nModules columns)
gateway_coefficient_sign(fcGiven, thisNetAffilVec, numNets) ==
    LET fc == ZeroDiagonal(fcGiven)
        Nodes == DOMAIN fc
        NetNums == 1 .. numNets
        members(netNum) == {j \in Nodes : thisNetAffilVec[j] = netNum}
        degreeOfROIs == Arr([i \in Nodes |-> nansum(Nodes, fc[i])])
        netAffilMask == netAffilMaskOf(fc, thisNetAffilVec)
        centVec == degreeOfROIs
        summed == Arr([netNum \in NetNums |-> nansum(members(netNum), centVec)])
        \* the largest of 0 and the summed centralities of the networks
        maxSummedCentrality ==
            IF \A netNum \in NetNums : ~QLess(Q(0), summed[netNum]) THEN Q(0)
            ELSE summed[CHOOSE k \in NetNums :
                            \A l \in NetNums : ~QLess(summed[k], summed[l])]
        ksArr == Arr([i \in Nodes |-> Arr([netNum \in NetNums |->
                        maskedRowSum(fc, netAffilMask, i, netNum)])])
        \* rows of networks of more than one node: the column sums of ksArr
        \* over the network, halved in the network's own column
        kjsArr == Arr([i \in Nodes |-> Arr([c \in NetNums |->
                        LET netNum == thisNetAffilVec[i]
                            ksSum == nansum(members(netNum),
                                            Arr([m \in Nodes |-> ksArr[m][c]]))
                        IN IF Cardinality(members(netNum)) > 1
                           THEN (IF c = netNum THEN QDiv(ksSum, Q(2)) ELSE ksSum)
                           ELSE Q(0)])])
        \* the summed centrality of the nodes of netNum whose entry in
        \* column nodeNum is positive
        csArr == Arr([nodeNum \in Nodes |-> Arr([netNum \in NetNums |->
                        IF QLess(Q(0), degreeOfROIs[nodeNum])
                        THEN nansum({j \in Nodes : /\ QLess(Q(0), fc[j][nodeNum])
                                                   /\ thisNetAffilVec[j] = netNum},
                                    centVec)
                        ELSE Q(0)])])
        ksNormed == Arr([i \in Nodes |-> Arr([c \in NetNums |->
                        LET x == QDiv(ksArr[i][c], kjsArr[i][c])
                        IN IF IsNaN(x) THEN Q(0) ELSE x])])
        csNormed == Arr([i \in Nodes |-> Arr([c \in NetNums |->
                        QDiv(csArr[i][c], maxSummedCentrality)])])
        gsTotal == Arr([i \in Nodes |-> Arr([c \in NetNums |->
                        QSquare(QSub(Q(1), QMul(ksNormed[i][c], csNormed[i][c])))])])
        gatewayCoef == Arr([i \in Nodes |->
                        QSub(Q(1), nansum(NetNums, Arr([c \in NetNums |->
                            QMul(QDiv(QSquare(ksArr[i][c]), QSquare(degreeOfROIs[i])),
                                 gsTotal[i][c])])))])
    IN Arr([i \in Nodes |-> IF IsNaN(gatewayCoef[i]) THEN Q(0) ELSE gatewayCoef[i]])

----------------------------------------------------------------------------
(* The caller of the coefficients                                          *)

Uniform2(n, w) == [i \in Range0(n) |-> [j \in Range0(n) |-> w]]

\* the affiliation vectors that give every network 1..numNets a node
AffilVecs(n, numNets) ==
    {v \in [Range0(n) -> 1 .. numNets] : \A k \in 1 .. numNets : \E j \in Range0(n) : v[j] = k}

\* the weights of a signed matrix
SignedWeights == Weights \cup {Q(0 - v) : v \in 1 .. MaxWeight}

SetEntry2 ==
    /\ pc = "input"
    /\ edits < MaxEdits
    /\ \E i \in DOMAIN fcArray, j \in DOMAIN fcArray, w \in SignedWeights :
          /\ fcArray[i][j] # w
          /\ fcArray' = [fcArray EXCEPT ![i][j] = w]
    /\ edits' = edits + 1
    /\ UNCHANGED <<pc, call, out, out2, sortRank>>

\* numNets is the largest number in thisNetAffilVec, as the docstrings ask
MetricCall(op, thisNetAffilVec) ==
    [op |-> op, thisNetAffilVec |-> thisNetAffilVec,
     numNets |-> nModulesOf(thisNetAffilVec)]

\* the affiliation vectors of the callers: one module, up to MetricNets
MetricAffilVecs(n) == UNION {AffilVecs(n, numNets) : numNets \in 1 .. MetricNets}

CallParticipation ==
    /\ pc = "input"
    /\ \E thisNetAffilVec \in MetricAffilVecs(Size(fcArray)) :
          /\ call' = MetricCall("participation_coefficient_sign", thisNetAffilVec)
          /\ out' = [op |-> "participation_coefficient_sign",
                     score |-> participation_coefficient_sign(fcArray, thisNetAffilVec,
                                            nModulesOf(thisNetAffilVec))]
    /\ pc' = "returned"
    /\ UNCHANGED <<fcArray, edits, out2, sortRank>>

CallDiversity ==
    /\ pc = "input"
    /\ \E thisNetAffilVec \in MetricAffilVecs(Size(fcArray)) :
          /\ call' = MetricCall("diversity_coef_sign", thisNetAffilVec)
          /\ out' = [op |-> "diversity_coef_sign",
                     score |-> diversity_coef_sign(fcArray, thisNetAffilVec,
                                                   nModulesOf(thisNetAffilVec))]
    /\ pc' = "returned"
    /\ UNCHANGED <<fcArray, edits, out2, sortRank>>

\* the caller's array comes back with its diagonal zeroed (line 26)
CallGateway ==
    /\ pc = "input"
    /\ \E thisNetAffilVec \in MetricAffilVecs(Size(fcArray)) :
          /\ call' = MetricCall("gateway_coefficient_sign", thisNetAffilVec)
          /\ out' = [op |-> "gateway_coefficient_sign",
                     score |-> gateway_coefficient_sign(fcArray, thisNetAffilVec,
                                                        nModulesOf(thisNetAffilVec))]
    /\ fcArray' = ZeroDiagonal(fcArray)
    /\ pc' = "returned"
    /\ UNCHANGED <<edits, out2, sortRank>>

InitMetric ==
    /\ \E w \in {Q(0), Q(1)} : fcArray = Uniform2(MetricNodes, w)
    /\ edits = 0
    /\ pc = "input"
    /\ call = NoCall
    /\ out = NoOut
    /\ out2 = NoOut
    /\ sortRank = <<>>

NextMetric == SetEntry2 \/ CallParticipation \/ CallDiversity \/ CallGateway

SpecMetric == InitMetric /\ [][NextMetric]_vars

----------------------------------------------------------------------------
(* Claims about the coefficients, checked under SpecMetric                 *)

ScoreOf(op, fc, thisNetAffilVec, numNets) ==
    CASE op = "participation_coefficient_sign" ->
            participation_coefficient_sign(fc, thisNetAffilVec, numNets)
      [] op = "diversity_coef_sign" -> diversity_coef_sign(fc, thisNetAffilVec, numNets)
      [] op = "gateway_coefficient_sign" ->
            gateway_coefficient_sign(fc, thisNetAffilVec, numNets)

\* C2: for the same affiliation vector, matrices that differ only on the
\* diagonal get the same scores from each of participation_coefficient_sign,
\* diversity_coef_sign and gateway_coefficient_sign.
C2_CoefficientsIgnoreDiagonal ==
    (pc = "returned" /\ call.op \in {"participation_coefficient_sign",
                                      "diversity_coef_sign",
                                      "gateway_coefficient_sign"}) =>
        \A i \in DOMAIN fcArray, w \in Weights :
            ScoreOf(call.op, [fcArray EXCEPT ![i][i] = w], call.thisNetAffilVec,
                    call.numNets) = out.score

ParticipationReturned == pc = "returned" /\ call.op = "participation_coefficient_sign"

\* the strength of node i, and whether every edge of i that is a non-zero
\* number goes to a node of the module of i
StrengthOf(i) == nansum(DOMAIN fcArray, fcArray[i])
Confined(i) ==
    \A j \in DOMAIN fcArray :
        (~IsNaN(fcArray[i][j]) /\ fcArray[i][j] # Q(0))
            => call.thisNetAffilVec[j] = call.thisNetAffilVec[i]

\* C20: participation_coefficient_sign returns exactly 0 for every node
\* whose total strength (row sum) is zero, and exactly 0 for every node all
\* of whose non-zero edges go to nodes of its own module.
C20_ZeroParticipation ==
    ParticipationReturned =>
        \A i \in DOMAIN fcArray :
            /\ StrengthOf(i) = Q(0) => out.score[i] = Q(0)
            /\ Confined(i) => out.score[i] = Q(0)

\* a node of non-zero strength with an edge to another node of its module
\* and none outside, next to a node with a non-zero score
C20_Witness ==
    /\ ParticipationReturned
    /\ \E i, j, m \in DOMAIN fcArray :
        /\ Confined(i)
        /\ StrengthOf(i) # Q(0)
        /\ j # i /\ fcArray[i][j] # Q(0) /\ ~IsNaN(fcArray[i][j])
        /\ out.score[i] = Q(0)
        /\ out.score[m] # Q(0)

\* a node whose edges to both modules cancel to strength zero
ZeroStrengthByCancellation ==
    /\ ParticipationReturned
    /\ \E i, j, m \in DOMAIN fcArray :
        /\ StrengthOf(i) = Q(0)
        /\ fcArray[i][j] = Q(1) /\ fcArray[i][m] = Q(0 - 1)
        /\ call.thisNetAffilVec[j] # call.thisNetAffilVec[m]
        /\ out.score[i] = Q(0)

GatewayReturned == pc = "returned" /\ call.op = "gateway_coefficient_sign"

\* C21: gateway_coefficient_sign returns exactly 0 for every node whose
\* total strength is zero, for any affiliation vector (the array holds the
\* zeroed diagonal when the call has returned).
C21_ZeroStrengthGateway ==
    GatewayReturned =>
        \A i \in DOMAIN fcArray : StrengthOf(i) = Q(0) => out.score[i] = Q(0)

CoefficientReturned ==
    pc = "returned" /\ call.op \in {"participation_coefficient_sign",
                                     "diversity_coef_sign", "gateway_coefficient_sign"}

NonNegativeFinite(fc) ==
    \A i \in DOMAIN fc : \A j \in DOMAIN fc[i] :
        fc[i][j][2] # 0 /\ fc[i][j][1] >= 0

\* a score that is a number: neither NaN nor infinite (a diversity score is
\* its sum over log(nModules), and log(1) = 0)
FiniteScore(op, v) ==
    IF op = "diversity_coef_sign" THEN 0 \notin DOMAIN v.sum /\ v.logOf # 1
    ELSE v[2] # 0

\* C22: for a finite non-negative matrix and any affiliation vector, a
\* single module and a module of a single node included, no score returned
\* by participation_coefficient_sign, gateway_coefficient_sign or
\* diversity_coef_sign is NaN or infinite.
C22_ScoresAreNumbers ==
    (CoefficientReturned /\ NonNegativeFinite(fcArray)) =>
        \A i \in DOMAIN out.score : FiniteScore(call.op, out.score[i])

DiversityReturned == pc = "returned" /\ call.op = "diversity_coef_sign"

\* the strength of node i towards module netNum, and whether the whole
\* non-zero strength of i lies in one module
ModuleStrength(i, netNum) ==
    nansum({j \in DOMAIN fcArray : call.thisNetAffilVec[j] = netNum}, fcArray[i])
Concentrated(i) ==
    /\ StrengthOf(i) # Q(0)
    /\ \E netNum \in 1 .. call.numNets :
          /\ ModuleStrength(i, netNum) = StrengthOf(i)
          /\ \A other \in (1 .. call.numNets) \ {netNum} : ModuleStrength(i, other) = Q(0)

\* a diversity score that is the number 0
ZeroDiversity(v) == v.sum = <<>> /\ v.logOf # 1

\* C23: diversity_coef_sign returns 0 for every node whose whole degree is
\* concentrated in exactly one module (proportion 1 for that module, 0 for
\* every other).
C23_ConcentratedDiversity ==
    DiversityReturned =>
        \A i \in DOMAIN fcArray : Concentrated(i) => ZeroDiversity(out.score[i])

\* what the code keeps of it: the score is 0 when the partition has more
\* than one module
ConcentratedDiversityOfSeveralModules ==
    (DiversityReturned /\ call.numNets > 1) =>
        \A i \in DOMAIN fcArray : Concentrated(i) => ZeroDiversity(out.score[i])

\* a node concentrated in one of two modules, next to a node with a score
\* that is not 0
SeveralModulesConcentrated ==
    /\ DiversityReturned /\ call.numNets > 1
    /\ \E i, j \in DOMAIN fcArray :
          Concentrated(i) /\ ~ZeroDiversity(out.score[j])

----------------------------------------------------------------------------
(* gvc(): src/cole_lab_net_metrics/gvc.py and gvc_plus_partition.py        *)

\* the square root of a float that is the square of a rational (the
\* variance of at most two values is: their standard deviation is half
\* their distance)
QSqrt(q) ==
    IF q[2] = 0 THEN q
    ELSE <<CHOOSE r \in 0 .. q[1] : r * r = q[1], CHOOSE r \in 1 .. q[2] : r * r = q[2]>>

\* np.nanstd of the entries f[i], i in I (ddof = 0): NaN entries are left
\* out, and the deviation of no entry at all is NaN
nanstd(I, f) ==
    LET vals == f
        J == {i \in I : ~IsNaN(vals[i])}
        m == nanmean(J, vals)
        sq == SumOver(J, Arr([i \in J |-> QSquare(QSub(vals[i], m))]))
    IN IF J = {} THEN NaN ELSE QSqrt(QDiv(sq, Q(Cardinality(J))))

\* np.fill_diagonal(thisTask, np.nan) for every task and subject: thisTask is
\* a view (basic slicing) of the array that was passed
FillDiagonalNaN(fc) ==
    Arr([i \in DOMAIN fc |-> Arr([j \in DOMAIN fc |->
            IF i = j THEN Arr([t \in DOMAIN fc[i][j] |->
                                Arr([s \in DOMAIN fc[i][j][t] |-> NaN])])
            ELSE fc[i][j]])])

\* a variant of gvc: the deviation taken across the neighbours and the mean
\* across the task conditions
gvcAcrossNeighbours(fcGiven) ==
    LET fc == FillDiagonalNaN(fcGiven)
        Nodes == DOMAIN fc
        Tasks == DOMAIN fc[0][0]
        Subjs == DOMAIN fc[0][0][0]
    IN Arr([i \in Nodes |-> Arr([subjNum \in Subjs |->
            nanmean(Tasks, Arr([t \in Tasks |->
                nanstd(Nodes, Arr([j \in Nodes |-> fc[i][j][t][subjNum]]))]))])])

\* gvcNodesSubjs[node][subject] of lines 21-30
gvc(fcGiven) ==
    LET fc == FillDiagonalNaN(fcGiven)
        Nodes == DOMAIN fc
        Tasks == DOMAIN fc[0][0]
        Subjs == DOMAIN fc[0][0][0]
    IN Arr([i \in Nodes |-> Arr([subjNum \in Subjs |->
            nanmean(Nodes, Arr([j \in Nodes |->
                nanstd(Tasks, Arr([t \in Tasks |-> fc[i][j][t][subjNum]]))]))])])

gvc_plus_partition(fcGiven, netBoundaries, nodeOrder, useRestPartitionAdjuster, netBoundariesNew, nodeOrderNew) ==
    LET boundariesHere == IF useRestPartitionAdjuster THEN netBoundariesNew
                          ELSE netBoundaries
        nParcels == Size(fcGiven)
        Subjs == DOMAIN fcGiven[0][0][0]
        unsorted == gvc(fcGiven)
        ord == SortOrder(nodeOrder, useRestPartitionAdjuster, nodeOrderNew)
        gvcNodesSubjs == Arr([a \in Range0(nParcels) |-> unsorted[ord[a]]])
        gvcNodes == Arr([a \in Range0(nParcels) |-> nanmean(Subjs, gvcNodesSubjs[a])])
        gvcNetsSubjs == Arr([netNum \in DOMAIN boundariesHere |-> Arr([subjNum \in Subjs |->
                            nanmean(ClusterOf(boundariesHere, netNum, nParcels),
                                    Arr([a \in Range0(nParcels) |->
                                            gvcNodesSubjs[a][subjNum]]))])])
    IN [gvcNodesSubjs |-> gvcNodesSubjs, gvcNetsSubjs |-> gvcNetsSubjs,
        gvcNodes |-> gvcNodes]

\* the caller's array comes back with NaN on its diagonals
CallGvc ==
    /\ pc = "input"
    /\ call' = [op |-> "gvc"]
    /\ out' = [op |-> "gvc", gvcNodesSubjs |-> gvc(fcArray)]
    /\ fcArray' = FillDiagonalNaN(fcArray)
    /\ pc' = "returned"
    /\ UNCHANGED <<edits, out2, sortRank>>

CallGvcPlusPartition ==
    /\ pc = "input"
    /\ \E boundaries \in TwoNets(Size(fcArray)),
          nodeOrder \in NodeOrders(Size(fcArray)),
          useRestPartitionAdjuster \in BOOLEAN :
          LET nodeOrderNew == IF useRestPartitionAdjuster THEN Reversed(Size(fcArray))
                              ELSE Identity(Size(fcArray))
          IN /\ call' = [op |-> "gvc_plus_partition",
                         netBoundaries |-> boundaries,
                         nodeOrder |-> nodeOrder,
                         useRestPartitionAdjuster |-> useRestPartitionAdjuster,
                         netBoundariesNew |-> boundaries,
                         nodeOrderNew |-> nodeOrderNew]
             /\ out' = [op |-> "gvc_plus_partition"]
                        @@ gvc_plus_partition(fcArray, boundaries, nodeOrder,
                                              useRestPartitionAdjuster, boundaries,
                                              nodeOrderNew)
    /\ fcArray' = FillDiagonalNaN(fcArray)
    /\ pc' = "returned"
    /\ UNCHANGED <<edits, out2, sortRank>>

NextGvc == SetEntry4 \/ CallGvc \/ CallGvcPlusPartition

SpecGvc == InitDev /\ [][NextGvc]_vars

----------------------------------------------------------------------------
(* Claims about the caller's array, checked under SpecGvc                  *)

\* C3: no operation modifies the caller's fcArray: when a call returns,
\* every entry of the array, the diagonal included, is what it was before
\* the call.
C3_CallerArrayUntouched ==
    [][(pc = "input" /\ pc' = "returned") => fcArray' = fcArray]_vars

GvcReturned == pc = "returned" /\ call.op = "gvc"

\* the weights of node i to every other node are numbers, each the same in
\* every task condition of the subject
ConstantAcrossTasks(i, subjNum) ==
    \A j \in DOMAIN fcArray \ {i} : \A t \in DOMAIN fcArray[i][j] :
        /\ ~IsNaN(fcArray[i][j][t][subjNum])
        /\ fcArray[i][j][t][subjNum] = fcArray[i][j][0][subjNum]

\* C24: gvc() returns 0 for every node i and subject s such that, for every
\* other node j, the weight fcArray[i,j,t,s] is the same number for all task
\* conditions t.
C24_ConstantWeightsGvcZero ==
    GvcReturned =>
        \A i \in DOMAIN fcArray : \A subjNum \in DOMAIN fcArray[0][0][0] :
            ConstantAcrossTasks(i, subjNum) => out.gvcNodesSubjs[i][subjNum] = Q(0)

\* a node with a non-zero weight to a neighbour, the same in every task
\* condition, and score 0
C24_Witness ==
    /\ GvcReturned
    /\ \E i, j \in DOMAIN fcArray : \E subjNum \in DOMAIN fcArray[0][0][0] :
        /\ i # j
        /\ ConstantAcrossTasks(i, subjNum)
        /\ fcArray[i][j][0][subjNum] = Q(1)
        /\ out.gvcNodesSubjs[i][subjNum] = Q(0)

GvcPlusPartitionReturned == pc = "returned" /\ call.op = "gvc_plus_partition"

----------------------------------------------------------------------------
(* The subjects of one array: deviation() and gvc() called on the same     *)
(* caller's array                                                          *)

NextSubjects == SetEntry4 \/ CallDeviation \/ CallGvc

SpecSubjects == InitDev /\ [][NextSubjects]_vars

\* fc with every entry of the subjects other than subjNum set to w
OtherSubjectsSet(fc, subjNum, w) ==
    [i \in DOMAIN fc |-> [j \in DOMAIN fc[i] |-> [t \in DOMAIN fc[i][j] |->
        [s \in DOMAIN fc[i][j][t] |-> IF s = subjNum THEN fc[i][j][t][s] ELSE w]]]]

\* C18: in the per-subject mode of deviation() and in gvc() the outputs of
\* subject s depend on fcArray[:,:,:,s] and the partition only: replacing
\* every other subject by the all-NaN array leaves them as they are (so any
\* two arrays that agree on subject s give the same outputs for s: both give
\* those of the array with the other subjects replaced).
C18_SubjectIndependence ==
    pc = "returned" =>
        \A subjNum \in DOMAIN fcArray[0][0][0] :
            LET other == OtherSubjectsSet(fcArray, subjNum, NaN)
            IN /\ (call.op = "deviation" /\ ~call.useMeanFirst) =>
                    deviation(other, call.netBoundaries, call.nodeOrder, FALSE,
                              call.useRestPartitionAdjuster, call.netBoundariesNew,
                              call.nodeOrderNew)[subjNum] = out.units[subjNum]
               /\ call.op = "gvc" =>
                    \A i \in DOMAIN out.gvcNodesSubjs :
                        gvc(other)[i][subjNum] = out.gvcNodesSubjs[i][subjNum]

\* a per-subject call on an array with a missing entry in one subject only,
\* whose subjects come out with different deviations
C18_Witness ==
    /\ DeviationReturned
    /\ ~call.useMeanFirst
    /\ HasNaN(fcArray)
    /\ ~HasNaN(OtherSubjectsSet(fcArray, 0, Q(0)))
    /\ out.units[0].deviationRFs # out.units[1].deviationRFs

----------------------------------------------------------------------------
(* The two-block graph: two modules of three nodes, weight 1 inside a      *)
(* module and 0 between the modules in every task condition and subject;   *)
(* the caller raises the weights of node 0 to the other module, and calls  *)
(* deviation() on the array and the coefficients on one of its matrices    *)

ScenarioBoundaries == [k \in 0 .. 1 |-> IF k = 0 THEN <<0, 2, 3>> ELSE <<3, 5, 3>>]
ScenarioNodes == Range0(ScenarioBoundaries[1][2] + 1)

\* the module of a node, numbered from 0 as the boundaries are
ModuleOf(i) ==
    CHOOSE k \in DOMAIN ScenarioBoundaries :
        ScenarioBoundaries[k][1] <= i /\ i <= ScenarioBoundaries[k][2]

\* the affiliation vector of the boundaries, numbered from 1
ScenarioAffilVec == [i \in ScenarioNodes |-> ModuleOf(i) + 1]

\* the graph with d on the diagonal
TwoBlock(d) ==
    [i \in ScenarioNodes |-> [j \in ScenarioNodes |->
        [t \in Range0(DevTasks) |-> [s \in Range0(DevSubjs) |->
            IF i = j THEN d ELSE IF ModuleOf(i) = ModuleOf(j) THEN Q(1) ELSE Q(0)]]]]

\* the weights node 0 is given to the other module
BetweenWeights == {Q(v) : v \in 0 .. (MaxWeight + 1)}

\* the row of node 0 to the other module set to w in one task condition of
\* one subject; the rows of the other nodes stay as they are
RaiseNode0 ==
    /\ pc = "input"
    /\ \E t \in DOMAIN fcArray[0][0], s \in DOMAIN fcArray[0][0][0], w \in BetweenWeights :
          /\ \E j \in ScenarioNodes : ModuleOf(j) # ModuleOf(0) /\ fcArray[0][j][t][s] # w
          /\ fcArray' = [fcArray EXCEPT ![0] = [j \in ScenarioNodes |->
                            IF ModuleOf(j) # ModuleOf(0)
                            THEN [fcArray[0][j] EXCEPT ![t][s] = w]
                            ELSE fcArray[0][j]]]
    /\ UNCHANGED <<edits, pc, call, out, out2, sortRank>>

\* fcArray[:,:,taskNum,subjNum]
MatrixOf(fc, taskNum, subjNum) ==
    [i \in DOMAIN fc |-> [j \in DOMAIN fc[i] |-> fc[i][j][taskNum][subjNum]]]

\* a coefficient of the matrix of one task condition and one subject
CallCoefficientOnMatrix ==
    /\ pc = "input"
    /\ \E op \in {"participation_coefficient_sign", "diversity_coef_sign"},
          t \in DOMAIN fcArray[0][0], s \in DOMAIN fcArray[0][0][0] :
          /\ call' = MetricCall(op, ScenarioAffilVec) @@ [taskNum |-> t, subjNum |-> s]
          /\ out' = [op |-> op,
                     score |-> ScoreOf(op, MatrixOf(fcArray, t, s), ScenarioAffilVec,
                                       nModulesOf(ScenarioAffilVec))]
    /\ pc' = "returned"
    /\ UNCHANGED <<fcArray, edits, out2, sortRank>>

InitScenario ==
    /\ \E d \in Weights : fcArray = TwoBlock(d)
    /\ edits = 0
    /\ pc = "input"
    /\ call = NoCall
    /\ out = NoOut
    /\ out2 = NoOut
    /\ sortRank = <<>>

NextScenario == RaiseNode0 \/ CallDeviation \/ CallCoefficientOnMatrix

SpecScenario == InitScenario /\ [][NextScenario]_vars

\* the call of the scenario: the boundaries of the two modules, the nodes
\* in their own order
ScenarioDeviationReturned ==
    /\ DeviationReturned
    /\ call.netBoundaries = ScenarioBoundaries
    /\ call.nodeOrder = Identity(Cardinality(ScenarioNodes))
    /\ ~call.useRestPartitionAdjuster

IsTwoBlock == \E d \in Weights : fcArray = TwoBlock(d)

\* C25: on the two-block graph (weight 1 on every within-module edge, 0 on
\* every between-module edge, in every task condition and subject) the
\* participation coefficient is 0 for all nodes, the diversity coefficient
\* is 0 for all nodes, and the deviation is 0 for both modules.
C25_TwoBlockScores ==
    IsTwoBlock =>
        /\ ScenarioDeviationReturned =>
              \A u \in DOMAIN out.units : \A k \in DOMAIN out.units[u].deviationRFs :
                  out.units[u].deviationRFs[k] = Q(0)
        /\ ParticipationReturned => \A i \in DOMAIN out.score : out.score[i] = Q(0)
        /\ DiversityReturned => \A i \in DOMAIN out.score : ZeroDiversity(out.score[i])

\* the per-subject call on the two-block graph: every node prefers its own
\* module in every task condition
C25_Witness ==
    /\ IsTwoBlock
    /\ ScenarioDeviationReturned
    /\ ~call.useMeanFirst
    /\ \A u \in DOMAIN out.units :
        /\ \A i \in ScenarioNodes : \A t \in DOMAIN out.units[u].nodePrefIdxs[i] :
              out.units[u].nodePrefIdxs[i][t] = ModuleOf(i)
        /\ \A k \in DOMAIN out.units[u].deviationRFs : out.units[u].deviationRFs[k] = Q(0)

\* in task condition t of subject s every weight of node 0 to the other
\* module exceeds every weight of node 0 within its module
Exceeds(t, s) ==
    \A j, k \in ScenarioNodes :
        (ModuleOf(j) # ModuleOf(0) /\ ModuleOf(k) = ModuleOf(0)
            /\ ~IsNaN(fcArray[0][k][t][s]))
            => QLess(fcArray[0][k][t][s], fcArray[0][j][t][s])

\* the subjects a unit is computed from: subject u, or all of them in the
\* mean-first mode
SubjectsOf(u) == IF call.useMeanFirst THEN DOMAIN fcArray[0][0][0] ELSE {u}
Node0Deviates(u) == \A t \in DOMAIN fcArray[0][0] : \A s \in SubjectsOf(u) : Exceeds(t, s)

\* C26: when in every task condition the between-module weights of node 0
\* exceed its within-module weights, the rows of the other nodes being those
\* of the two-block graph, node 0 prefers the other module in every task
\* condition, its affinity for its own module is 0, the deviation of module
\* 0 is 1/3 (nodes 1 and 2 prefer their own module) and that of module 1
\* stays 0.
C26_OneDeviatingNode ==
    ScenarioDeviationReturned =>
        \A u \in DOMAIN out.units :
            Node0Deviates(u) =>
                /\ \A t \in DOMAIN out.units[u].nodePrefIdxs[0] :
                      out.units[u].nodePrefIdxs[0][t] = 1
                /\ out.units[u].netAffinities[0][0] = Q(0)
                /\ \A i \in {1, 2} : out.units[u].netAffinities[i][0] = Q(1)
                /\ out.units[u].deviationRFs[0] = <<1, 3>>
                /\ out.units[u].deviationRFs[1] = Q(0)

\* the per-subject call after the weights of node 0 were raised in every
\* task condition of every subject
C26_Witness ==
    /\ ScenarioDeviationReturned
    /\ ~call.useMeanFirst
    /\ \A u \in DOMAIN out.units :
        /\ Node0Deviates(u)
        /\ \E j \in ScenarioNodes : fcArray[0][j][0][u] = Q(MaxWeight + 1)
        /\ out.units[u].deviationRFs[0] = <<1, 3>>

----------------------------------------------------------------------------
(* glasser_ordering(): a vector sorted into networks is put back into the  *)
(* original node order, and spread over the vertices of the surface.       *)
(* The helper variables the module loads from files at import are chosen   *)
(* by the caller here: a network number for every node, a permutation of   *)
(* the nodes, and the parcel labels of the vertices of a small surface.    *)

GlasserHalf == 2
GlasserNets == 2

\* nParcels (line 39) and numNets (line 40), at the size of the model
GlasserParcels == 2 * GlasserHalf

\* np.where(vec == v)[0]: the indices that hold v, in ascending order
npwhere(vec, v) ==
    LET hits == {a \in DOMAIN vec : vec[a] = v}
    IN  Arr([k \in Range0(Cardinality(hits)) |->
                CHOOSE a \in hits : Cardinality({b \in hits : b < a}) = k])

\* a variant of newOrderOf: the positions are scattered the other way round,
\* newOrder[orderedFinder] = refFinder
newOrderOfSwapped(nodeIndices, nodeOrder) ==
    LET orderedVec == Arr([a \in DOMAIN nodeOrder |-> nodeIndices[nodeOrder[a]]])
        netOf(a) == orderedVec[a]
    IN  Arr([a \in Range0(GlasserParcels) |->
                IF netOf(a) \in 1 .. GlasserNets
                THEN LET orderedFinder == npwhere(orderedVec, netOf(a))
                         refFinder == npwhere(nodeIndices, netOf(a))
                         k == CHOOSE l \in DOMAIN orderedFinder : orderedFinder[l] = a
                     IN  refFinder[k]
                ELSE 0])

\* lines 56-61: the k-th node of a network, in the original order, gets the
\* k-th position of that network in the sorted order; a node of a network
\* outside 1 .. numNets keeps the 0 of np.zeros
newOrderOf(nodeIndices, nodeOrder) ==
    LET orderedVec == Arr([a \in DOMAIN nodeOrder |-> nodeIndices[nodeOrder[a]]])
        netOf(n) == nodeIndices[n]
    IN  Arr([n \in Range0(GlasserParcels) |->
                IF netOf(n) \in 1 .. GlasserNets
                THEN LET orderedFinder == npwhere(orderedVec, netOf(n))
                         refFinder == npwhere(nodeIndices, netOf(n))
                         k == CHOOSE l \in DOMAIN refFinder : refFinder[l] = n
                     IN  orderedFinder[k]
                ELSE 0])

\* lines 26-34: one vertex without a parcel, then one vertex per parcel of the
\* hemisphere; the labels of the left hemisphere are those of the upper half
leftNodes == Arr([v \in Range0(GlasserHalf + 1) |-> IF v = 0 THEN 0 ELSE GlasserHalf + v])
rightNodes == Arr([v \in Range0(GlasserHalf + 1) |-> v])

\* numTotal (line 41): both hemispheres and one vertex below the cortex
GlasserTotal == 2 * (GlasserHalf + 1) + 1

\* lines 45-98
glasser_ordering(dataVectorSorted, nodeIndices, nodeOrder) ==
    LET newOrder == newOrderOf(nodeIndices, nodeOrder)
        vecReOrdered == Arr([n \in Range0(GlasserParcels) |-> dataVectorSorted[newOrder[n]]])
        numBalsa == Size(leftNodes)
        maxBalsa == numBalsa * 2
        newRegionVec ==
            Arr([vertNum \in Range0(GlasserTotal) |->
                IF vertNum < numBalsa
                THEN IF leftNodes[vertNum] = 0 THEN Q(0)
                     ELSE vecReOrdered[(leftNodes[vertNum] - GlasserHalf) - 1]
                ELSE IF vertNum < maxBalsa
                THEN IF rightNodes[vertNum - numBalsa] = 0 THEN Q(0)
                     ELSE vecReOrdered[(rightNodes[vertNum - numBalsa] + GlasserHalf) - 1]
                ELSE NaN])
    IN  [dataVector |-> vecReOrdered, dataVector_Vertices |-> newRegionVec]

\* the caller's data vector, in the original node order
SetDatum ==
    /\ pc = "input"
    /\ \E n \in DOMAIN fcArray, w \in Weights :
          /\ fcArray[n] # w
          /\ fcArray' = [fcArray EXCEPT ![n] = w]
    /\ UNCHANGED <<edits, pc, call, out, out2, sortRank>>

\* the caller sorts its vector with nodeOrder and hands it over
CallGlasserOrdering ==
    /\ pc = "input"
    /\ \E nodeIndices \in [Range0(GlasserParcels) -> 1 .. GlasserNets],
          nodeOrder \in {Arr(p) : p \in Permutations(Range0(GlasserParcels))} :
          LET dataVectorSorted == Arr([a \in Range0(GlasserParcels) |-> fcArray[nodeOrder[a]]])
          IN  /\ call' = [op |-> "glasser_ordering", nodeIndices |-> Arr(nodeIndices),
                          nodeOrder |-> nodeOrder, dataVectorSorted |-> dataVectorSorted]
              /\ out' = [op |-> "glasser_ordering"]
                           @@ glasser_ordering(dataVectorSorted, Arr(nodeIndices), nodeOrder)
    /\ pc' = "returned"
    /\ UNCHANGED <<fcArray, edits, out2, sortRank>>

InitGlasser ==
    /\ fcArray = Arr([n \in Range0(GlasserParcels) |-> Q(0)])
    /\ edits = 0
    /\ pc = "input"
    /\ call = NoCall
    /\ out = NoOut
    /\ out2 = NoOut
    /\ sortRank = <<>>

NextGlasser == SetDatum \/ CallGlasserOrdering

SpecGlasser == InitGlasser /\ [][NextGlasser]_vars

GlasserReturned == pc = "returned" /\ call.op = "glasser_ordering"

\* nodeIndices[nodeOrder] is non-decreasing
SortsIntoBlocks ==
    \A a \in DOMAIN call.nodeOrder, b \in DOMAIN call.nodeOrder :
        a < b => call.nodeIndices[call.nodeOrder[a]] <= call.nodeIndices[call.nodeOrder[b]]

\* the nodes of one network keep their original order inside the block
KeepsOrderInBlocks ==
    \A a \in DOMAIN call.nodeOrder, b \in DOMAIN call.nodeOrder :
        (a < b /\ call.nodeIndices[call.nodeOrder[a]] = call.nodeIndices[call.nodeOrder[b]])
            => call.nodeOrder[a] < call.nodeOrder[b]

\* C29: for any node order that sorts the nodes into non-decreasing network
\* blocks and any data vector d in the original node order, the first output
\* of glasser_ordering(d[nodeOrder]) equals d.
C29_RoundTrip ==
    (GlasserReturned /\ SortsIntoBlocks) => out.dataVector = fcArray

\* C29 for the node orders the code inverts: those that sort the nodes into
\* non-decreasing network blocks and list the nodes of each network in
\* ascending original index; then the first output equals d.
C29_RoundTripInOrder ==
    (GlasserReturned /\ SortsIntoBlocks /\ KeepsOrderInBlocks) => out.dataVector = fcArray

\* an order that moves nodes, on a vector it changes, is inverted
C29_Witness ==
    /\ GlasserReturned
    /\ SortsIntoBlocks
    /\ KeepsOrderInBlocks
    /\ call.dataVectorSorted # fcArray
    /\ out.dataVector = fcArray

====
